---- MODULE Spec2Model ----
(***************************************************************************)
(* Model of build_apk.py: main() turns an HTML page and an icon into a     *)
(* signed APK by running external tools one after another.  The state is   *)
(* the position of main(), the files it reads and writes (final APK,       *)
(* temporary signed APK, debug keystore, cached dex, temporary directory), *)
(* the manifest text being rewritten, and the list of external commands    *)
(* the current run has invoked with their outcomes.                        *)
(***************************************************************************)
EXTENDS Integers, Sequences, FiniteSets, TLC

\* Number of consecutive runs of main() that are explored.
MaxRuns == 3

VARIABLES
    run,          \* number of runs of main() started so far
    pc,           \* position of the current run inside main()
    env,          \* what the current run finds on disk: html, icon, apktool.jar, platforms
    log,          \* external commands invoked by the current run, in order, with outcome
    effects,      \* directories the current run has created (ensure_dir / mkdtemp)
    exitReason,   \* why the current run called sys.exit(1)
    tmpExists,    \* the TemporaryDirectory of the current run exists
    manifestIn,   \* AndroidManifest.xml as read (shell project / decoded template)
    manifest,     \* AndroidManifest.xml text in the working tree after rewriting
    classes_dex,  \* which classes.dex the local variable classes_dex points to
    apk,          \* the APK under construction inside the temporary directory
    keystore,     \* build/debug-jks.keystore: 0 = absent, n = generated by run n
    dexCache,     \* build/dex/classes.dex: 0 = absent, -1 = put there beforehand, n = written by run n
    tempApk,      \* build/build_temp_<pkg>.apk: 0 = absent, n = signed by run n
    finalApk,     \* <out_dir>/<name>_<pkg>_<version>.apk: 0 = absent, n = produced by run n
    startFinal,   \* finalApk as it was when the current run started
    startKeystore,\* keystore as it was when the current run started
    dexCache0,    \* dexCache as it was before the first run
    d8Count       \* number of d8 invocations that succeeded, over all runs

vars == <<run, pc, env, log, effects, exitReason, tmpExists, manifestIn, manifest,
          classes_dex,
          apk, keystore, dexCache, tempApk, finalApk, startFinal, startKeystore,
          dexCache0, d8Count>>

----------------------------------------------------------------------------
(* Manifest text, structured.  Each field records what the string and      *)
(* regex tests of the code can see: which attributes occur on the          *)
(* <manifest>, <application> and (single) <activity> elements, in document *)
(* order, and with which value.                                            *)

ManifestInputs ==
    [ usesSdk      : BOOLEAN,              \* "<uses-sdk" occurs
      internet     : BOOLEAN,              \* "android.permission.INTERNET" occurs
      pkg          : {"none", "orig"},     \* package="..." on <manifest>
      versionName  : {"none", "orig"},     \* android:versionName="..."
      appIcon      : BOOLEAN,              \* android:icon= on <application>
      actIcon      : BOOLEAN,              \* android:icon= on <activity>
      appTheme     : {"none", "other"},    \* android:theme="..." on <application>
      actTheme     : {"none", "other"},    \* android:theme="..." on <activity>
      exported     : {{}, {"true"}, {"false"}},  \* android:exported values on <activity>
      intentFilter : BOOLEAN,              \* "<intent-filter>" occurs
      appLabel     : {"none", "orig"},     \* android:label="..." on <application>
      actLabel     : {"none", "orig"},     \* android:label="..." on <activity>
      actName      : {"relative", "absolute"} ]  \* android:name=".MainActivity" or full name

NoManifest ==
    [ usesSdk |-> FALSE, internet |-> FALSE, pkg |-> "none", versionName |-> "none",
      appIcon |-> FALSE, actIcon |-> FALSE, appTheme |-> "none", actTheme |-> "none",
      exported |-> {}, intentFilter |-> FALSE, appLabel |-> "none", actLabel |-> "none",
      actName |-> "absolute" ]

\* re.sub(r'package="[^"]+"', f'package="{pkg}"', xml, count=1)
SetPackage(m) ==
    IF m.pkg # "none" THEN [m EXCEPT !.pkg = "req"] ELSE m

\* if re.search(versionName) then re.sub(..., count=1) else insert into "<manifest "
SetVersionName(m) ==
    [m EXCEPT !.versionName = "req"]

\* if "android.permission.INTERNET" not in xml: insert <uses-permission> before <application
AddInternet(m) ==
    IF ~m.internet THEN [m EXCEPT !.internet = TRUE] ELSE m

\* if 'android:icon=' not in xml: add android:icon to <application
AddIcon(m) ==
    IF ~m.appIcon /\ ~m.actIcon THEN [m EXCEPT !.appIcon = TRUE] ELSE m

\* if "<uses-sdk" not in xml: insert <uses-sdk> before <application
AddUsesSdk(m) ==
    IF ~m.usesSdk THEN [m EXCEPT !.usesSdk = TRUE] ELSE m

\* if 'android:theme=' not in xml: add the theme to <application;
\* elif 'android:theme="' in xml: re.sub replaces every theme value
SetTheme(m) ==
    IF m.appTheme = "none" /\ m.actTheme = "none"
    THEN [m EXCEPT !.appTheme = "AppTheme"]
    ELSE [m EXCEPT !.appTheme = IF @ = "none" THEN "none" ELSE "AppTheme",
                   !.actTheme = IF @ = "none" THEN "none" ELSE "AppTheme"]

\* if 'android:exported="true"' not in xml and '<intent-filter>' in xml:
\*     append android:exported="true" to the first <activity ...> tag
AddExported(m) ==
    IF "true" \notin m.exported /\ m.intentFilter
    THEN [m EXCEPT !.exported = @ \cup {"true"}]
    ELSE m

\* xml.replace('android:name=".MainActivity"', 'android:name="com.placeholder.shell.MainActivity"')
FixActivityName(m) ==
    [m EXCEPT !.actName = "absolute"]

\* re.sub(r'android:label="[^"]+"', f'android:label="{app_name}"', xml, count=1):
\* the first label in document order, <application> before <activity>
SetLabel(m) ==
    IF m.appLabel # "none" THEN [m EXCEPT !.appLabel = "req"]
    ELSE IF m.actLabel # "none" THEN [m EXCEPT !.actLabel = "req"]
    ELSE m

update_manifest_nointernet(m) ==
    AddIcon(SetVersionName(SetPackage(m)))

\* update_manifest(manifest_path, pkg, version_name), used on the apktool path
update_manifest(m) ==
    AddIcon(AddInternet(SetVersionName(SetPackage(m))))

RewriteShellManifest_nolabel(m) ==
    SetVersionName(SetPackage(FixActivityName(AddExported(SetTheme(
        AddIcon(AddInternet(AddUsesSdk(m))))))))

\* the inline rewriting of the shell project's manifest on the aapt path
RewriteShellManifest(m) ==
    SetVersionName(SetPackage(SetLabel(FixActivityName(AddExported(SetTheme(
        AddIcon(AddInternet(AddUsesSdk(m)))))))))

\* Manifests the pipeline specification reads from the shell project and the
\* template APK: a complete one, one with no optional attribute at all, and
\* one whose attributes sit on the activity.
ShellManifests ==
    { [NoManifest EXCEPT !.pkg = "orig", !.versionName = "orig", !.appLabel = "orig",
                         !.appTheme = "other", !.appIcon = TRUE, !.intentFilter = TRUE,
                         !.actName = "relative", !.usesSdk = TRUE],
      [NoManifest EXCEPT !.actName = "relative"],
      [NoManifest EXCEPT !.pkg = "orig", !.actLabel = "orig", !.actTheme = "other",
                         !.actIcon = TRUE, !.intentFilter = TRUE,
                         !.exported = {"false"}] }

----------------------------------------------------------------------------

(* External commands.  The position of main() at a command carries the     *)
(* command's name.                                                         *)

Cmds == {"apktoolD", "apktoolB", "javac", "d8", "aaptPackage", "aaptPackageNoRes",
         "aaptAdd", "zipalign", "keytool", "apksigner"}

\* the executable a command line starts with
BinaryOf(c) ==
    CASE c \in {"apktoolD", "apktoolB"} -> "java"
      [] c \in {"aaptPackage", "aaptPackageNoRes", "aaptAdd"} -> "aapt"
      [] OTHER -> c

Envs == [html : BOOLEAN, icon : BOOLEAN, apktool : BOOLEAN, platforms : BOOLEAN]

NoEnv == [html |-> FALSE, icon |-> FALSE, apktool |-> FALSE, platforms |-> FALSE]

NoApk == [unsigned |-> "none", res |-> FALSE, dex |-> "none", aligned |-> FALSE,
          manifest |-> NoManifest]

Ended == {"done", "exit1", "raised"}

\* subprocess.run has not returned yet
Running == log # <<>> /\ log[Len(log)].res = "running"

\* subprocess.run returns: exit status 0, or CalledProcessError (check=True)
Returned(rc) ==
    [log EXCEPT ![Len(log)].res = IF rc = 0 THEN "ok" ELSE "nonzero"]

\* an exception leaves the with-block: the temporary directory is removed
Raise ==
    /\ pc' = "raised"
    /\ tmpExists' = FALSE

\* sys.exit(1)
Exit(reason) ==
    /\ pc' = "exit1"
    /\ exitReason' = reason
    /\ tmpExists' = FALSE

Init ==
    /\ run = 0
    /\ pc = "idle"
    /\ env = NoEnv
    /\ log = <<>>
    /\ effects = {}
    /\ exitReason = "none"
    /\ tmpExists = FALSE
    /\ manifestIn = NoManifest
    /\ manifest = NoManifest
    /\ classes_dex = "unset"
    /\ apk = NoApk
    /\ keystore = 0
    /\ dexCache \in {0, -1}
    /\ dexCache0 = dexCache
    /\ tempApk = 0
    /\ finalApk = 0
    /\ startFinal = 0
    /\ startKeystore = 0
    /\ d8Count = 0

\* python build_apk.py is started; arguments are parsed
StartRun ==
    /\ pc \in Ended \cup {"idle"}
    /\ run < MaxRuns
    /\ run' = run + 1
    /\ pc' = "checkHtml"
    /\ env' \in Envs
    /\ log' = <<>>
    /\ effects' = {}
    /\ exitReason' = "none"
    /\ tmpExists' = FALSE
    /\ manifestIn' = NoManifest
    /\ manifest' = NoManifest
    /\ classes_dex' = "unset"
    /\ apk' = NoApk
    /\ startFinal' = finalApk
    /\ startKeystore' = keystore
    /\ UNCHANGED <<keystore, dexCache, tempApk, finalApk, dexCache0, d8Count>>

CheckHtml_icon ==
    /\ pc = "checkHtml"
    /\ IF ~env.icon
       THEN Exit("icon")
       ELSE pc' = "checkIcon" /\ UNCHANGED <<exitReason, tmpExists>>
    /\ UNCHANGED <<run, env, log, effects, manifestIn, manifest, classes_dex, apk,
                   keystore, dexCache, tempApk, finalApk, startFinal, startKeystore,
                   dexCache0, d8Count>>

\* if not html_path.exists(): sys.exit(1)
CheckHtml ==
    /\ pc = "checkHtml"
    /\ IF ~env.html
       THEN Exit("html")
       ELSE pc' = "checkIcon" /\ UNCHANGED <<exitReason, tmpExists>>
    /\ UNCHANGED <<run, env, log, effects, manifestIn, manifest, classes_dex, apk,
                   keystore, dexCache, tempApk, finalApk, startFinal, startKeystore,
                   dexCache0, d8Count>>

\* if not icon_path.exists(): sys.exit(1)
CheckIcon ==
    /\ pc = "checkIcon"
    /\ IF ~env.icon
       THEN Exit("icon")
       ELSE pc' = "setup" /\ UNCHANGED <<exitReason, tmpExists>>
    /\ UNCHANGED <<run, env, log, effects, manifestIn, manifest, classes_dex, apk,
                   keystore, dexCache, tempApk, finalApk, startFinal, startKeystore,
                   dexCache0, d8Count>>

\* app name, output names, ensure_dir(out_dir), ensure_dir(base_dir / "build")
Setup ==
    /\ pc = "setup"
    /\ effects' = effects \cup {"outDir", "buildDir"}
    /\ pc' = "probe"
    /\ UNCHANGED <<run, env, log, exitReason, tmpExists, manifestIn, manifest,
                   classes_dex, apk, keystore, dexCache, tempApk, finalApk, startFinal,
                   startKeystore, dexCache0, d8Count>>

EnterTmp_inverted ==
    /\ pc = "probe"
    /\ effects' = effects \cup {"tmp"}
    /\ tmpExists' = TRUE
    /\ pc' = IF ~env.apktool THEN "apktoolD" ELSE "aaptProbe"
    /\ UNCHANGED <<run, env, log, exitReason, manifestIn, manifest, classes_dex, apk,
                   keystore, dexCache, tempApk, finalApk, startFinal, startKeystore,
                   dexCache0, d8Count>>

\* find_tool for apktool.jar, zipalign, apksigner (the last two always resolve to a
\* command name); the temporary directory is created; "if apktool:" picks the path
EnterTmp ==
    /\ pc = "probe"
    /\ effects' = effects \cup {"tmp"}
    /\ tmpExists' = TRUE
    /\ pc' = IF env.apktool THEN "apktoolD" ELSE "aaptProbe"
    /\ UNCHANGED <<run, env, log, exitReason, manifestIn, manifest, classes_dex, apk,
                   keystore, dexCache, tempApk, finalApk, startFinal, startKeystore,
                   dexCache0, d8Count>>

\* run_cmd: subprocess.run starts the command, or raises OSError when the
\* executable cannot be started (no handler in main() catches OSError)
Invoke ==
    /\ pc \in Cmds
    /\ ~Running
    /\ \E launched \in BOOLEAN :
          IF launched
          THEN /\ log' = Append(log, [cmd |-> pc, res |-> "running"])
               /\ UNCHANGED <<pc, tmpExists>>
          ELSE /\ log' = Append(log, [cmd |-> pc, res |-> "oserror"])
               /\ Raise
    /\ UNCHANGED <<run, env, effects, exitReason, manifestIn, manifest, classes_dex,
                   apk, keystore, dexCache, tempApk, finalApk, startFinal,
                   startKeystore, dexCache0, d8Count>>

----------------------------------------------------------------------------
(* apktool path                                                            *)

\* java -jar apktool d template.apk -o workdir -f
ApktoolDDone ==
    /\ pc = "apktoolD" /\ Running
    /\ \E rc \in {0, 1} :
          /\ log' = Returned(rc)
          /\ IF rc = 0
             THEN /\ \E m \in ShellManifests : manifestIn' = m /\ manifest' = m
                  /\ pc' = "apktoolPrep"
                  /\ UNCHANGED tmpExists
             ELSE Raise /\ UNCHANGED <<manifestIn, manifest>>
    /\ UNCHANGED <<run, env, effects, exitReason, classes_dex, apk, keystore, dexCache,
                   tempApk, finalApk, startFinal, startKeystore, dexCache0, d8Count>>

\* copy the page and the icons into workdir, then update_manifest(workdir manifest)
ApktoolPrep ==
    /\ pc = "apktoolPrep"
    /\ manifest' = update_manifest(manifest)
    /\ pc' = "apktoolB"
    /\ UNCHANGED <<run, env, log, effects, exitReason, tmpExists, manifestIn,
                   classes_dex, apk, keystore, dexCache, tempApk, finalApk, startFinal,
                   startKeystore, dexCache0, d8Count>>

ApktoolBDone_fallthrough ==
    /\ pc = "apktoolB" /\ Running
    /\ \E rc \in {0, 1} :
          /\ log' = Returned(rc)
          /\ IF rc = 0
             THEN /\ apk' = [apk EXCEPT !.unsigned = "full", !.res = TRUE,
                                        !.dex = "template", !.manifest = manifest]
                  /\ pc' = "aaptProbe"
                  /\ UNCHANGED tmpExists
             ELSE Raise /\ UNCHANGED apk
    /\ UNCHANGED <<run, env, effects, exitReason, manifestIn, manifest, classes_dex,
                   keystore, dexCache, tempApk, finalApk, startFinal, startKeystore,
                   dexCache0, d8Count>>

\* java -jar apktool b workdir -o unsigned.apk
ApktoolBDone ==
    /\ pc = "apktoolB" /\ Running
    /\ \E rc \in {0, 1} :
          /\ log' = Returned(rc)
          /\ IF rc = 0
             THEN /\ apk' = [apk EXCEPT !.unsigned = "full", !.res = TRUE,
                                        !.dex = "template", !.manifest = manifest]
                  /\ pc' = "zipalign"
                  /\ UNCHANGED tmpExists
             ELSE Raise /\ UNCHANGED apk
    /\ UNCHANGED <<run, env, effects, exitReason, manifestIn, manifest, classes_dex,
                   keystore, dexCache, tempApk, finalApk, startFinal, startKeystore,
                   dexCache0, d8Count>>

----------------------------------------------------------------------------
(* aapt path                                                               *)

\* find_tool for aapt and d8 (always resolve); if not platforms.exists(): sys.exit(1)
AaptProbe ==
    /\ pc = "aaptProbe"
    /\ IF ~env.platforms
       THEN Exit("platforms")
       ELSE pc' = "aaptPrep" /\ UNCHANGED <<exitReason, tmpExists>>
    /\ UNCHANGED <<run, env, log, effects, manifestIn, manifest, classes_dex, apk,
                   keystore, dexCache, tempApk, finalApk, startFinal, startKeystore,
                   dexCache0, d8Count>>

\* read the shell manifest, rewrite it into tmp, copy the page, icons and styles
AaptPrep ==
    /\ pc = "aaptPrep"
    /\ \E m \in ShellManifests :
          /\ manifestIn' = m
          /\ manifest' = RewriteShellManifest(m)
    /\ pc' = "dexCheck"
    /\ UNCHANGED <<run, env, log, effects, exitReason, tmpExists, classes_dex, apk,
                   keystore, dexCache, tempApk, finalApk, startFinal, startKeystore,
                   dexCache0, d8Count>>

DexCheck_always ==
    /\ pc = "dexCheck"
    /\ classes_dex' = "cache"
    /\ pc' = "javac"
    /\ UNCHANGED <<run, env, log, effects, exitReason, tmpExists, manifestIn, manifest,
                   apk, keystore, dexCache, tempApk, finalApk, startFinal,
                   startKeystore, dexCache0, d8Count>>

\* classes_dex = build/dex/classes.dex; if not classes_dex.exists(): compile
DexCheck ==
    /\ pc = "dexCheck"
    /\ classes_dex' = "cache"
    /\ pc' = IF dexCache = 0 THEN "javac" ELSE "aaptPackage"
    /\ UNCHANGED <<run, env, log, effects, exitReason, tmpExists, manifestIn, manifest,
                   apk, keystore, dexCache, tempApk, finalApk, startFinal,
                   startKeystore, dexCache0, d8Count>>

\* javac ... -d tmp/classes MainActivity.java
JavacDone ==
    /\ pc = "javac" /\ Running
    /\ \E rc \in {0, 1} :
          /\ log' = Returned(rc)
          /\ IF rc = 0
             THEN pc' = "classCheck" /\ UNCHANGED tmpExists
             ELSE Raise
    /\ UNCHANGED <<run, env, effects, exitReason, manifestIn, manifest, classes_dex,
                   apk, keystore, dexCache, tempApk, finalApk, startFinal,
                   startKeystore, dexCache0, d8Count>>

\* class_files = classes_dir.rglob("*.class"); if not class_files: sys.exit(1)
ClassCheck ==
    /\ pc = "classCheck"
    /\ \E found \in BOOLEAN :
          IF found
          THEN pc' = "d8" /\ UNCHANGED <<exitReason, tmpExists>>
          ELSE Exit("noclass")
    /\ UNCHANGED <<run, env, log, effects, manifestIn, manifest, classes_dex, apk,
                   keystore, dexCache, tempApk, finalApk, startFinal, startKeystore,
                   dexCache0, d8Count>>

D8Done_cache ==
    /\ pc = "d8" /\ Running
    /\ \E rc \in {0, 1} :
          /\ log' = Returned(rc)
          /\ IF rc = 0
             THEN /\ classes_dex' = "cache"
                  /\ dexCache' = run
                  /\ d8Count' = d8Count + 1
                  /\ pc' = "aaptPackage"
                  /\ UNCHANGED tmpExists
             ELSE Raise /\ UNCHANGED <<classes_dex, d8Count, dexCache>>
    /\ UNCHANGED <<run, env, effects, exitReason, manifestIn, manifest, apk, keystore,
                   tempApk, finalApk, startFinal, startKeystore, dexCache0>>

\* d8 --min-api 21 --output tmp/dex <class files>; classes_dex = tmp/dex/classes.dex
D8Done ==
    /\ pc = "d8" /\ Running
    /\ \E rc \in {0, 1} :
          /\ log' = Returned(rc)
          /\ IF rc = 0
             THEN /\ classes_dex' = "tmp"
                  /\ d8Count' = d8Count + 1
                  /\ pc' = "aaptPackage"
                  /\ UNCHANGED tmpExists
             ELSE Raise /\ UNCHANGED <<classes_dex, d8Count>>
    /\ UNCHANGED <<run, env, effects, exitReason, manifestIn, manifest, apk, keystore,
                   dexCache, tempApk, finalApk, startFinal, startKeystore, dexCache0>>

AaptPackageDone_skipAdd ==
    /\ pc = "aaptPackage" /\ Running
    /\ \E rc \in {0, 1} :
          /\ log' = Returned(rc)
          /\ IF rc = 0
             THEN /\ apk' = [apk EXCEPT !.unsigned = "nodex", !.res = TRUE,
                                        !.manifest = manifest]
                  /\ pc' = "zipalign"
             ELSE /\ pc' = "aaptPackageNoRes"
                  /\ UNCHANGED apk
    /\ UNCHANGED <<run, env, effects, exitReason, tmpExists, manifestIn, manifest,
                   classes_dex, keystore, dexCache, tempApk, finalApk, startFinal,
                   startKeystore, dexCache0, d8Count>>

\* try: aapt package -f -M manifest -I android.jar -A assets -S res -F unsigned.apk
\* except subprocess.CalledProcessError: fall back to packaging without -S res
AaptPackageDone ==
    /\ pc = "aaptPackage" /\ Running
    /\ \E rc \in {0, 1} :
          /\ log' = Returned(rc)
          /\ IF rc = 0
             THEN /\ apk' = [apk EXCEPT !.unsigned = "nodex", !.res = TRUE,
                                        !.manifest = manifest]
                  /\ pc' = "aaptAdd"
             ELSE /\ pc' = "aaptPackageNoRes"
                  /\ UNCHANGED apk
    /\ UNCHANGED <<run, env, effects, exitReason, tmpExists, manifestIn, manifest,
                   classes_dex, keystore, dexCache, tempApk, finalApk, startFinal,
                   startKeystore, dexCache0, d8Count>>

AaptPackageNoResDone_swallow ==
    /\ pc = "aaptPackageNoRes" /\ Running
    /\ \E rc \in {0, 1} :
          /\ log' = Returned(rc)
          /\ apk' = [apk EXCEPT !.unsigned = "nodex", !.res = FALSE,
                                !.manifest = manifest]
          /\ pc' = "aaptAdd"
    /\ UNCHANGED <<run, env, effects, exitReason, tmpExists, manifestIn, manifest,
                   classes_dex, keystore, dexCache, tempApk, finalApk, startFinal,
                   startKeystore, dexCache0, d8Count>>

\* aapt package -f -M manifest -I android.jar -A assets -F unsigned.apk (no handler)
AaptPackageNoResDone ==
    /\ pc = "aaptPackageNoRes" /\ Running
    /\ \E rc \in {0, 1} :
          /\ log' = Returned(rc)
          /\ IF rc = 0
             THEN /\ apk' = [apk EXCEPT !.unsigned = "nodex", !.res = FALSE,
                                        !.manifest = manifest]
                  /\ pc' = "aaptAdd"
                  /\ UNCHANGED tmpExists
             ELSE Raise /\ UNCHANGED apk
    /\ UNCHANGED <<run, env, effects, exitReason, manifestIn, manifest, classes_dex,
                   keystore, dexCache, tempApk, finalApk, startFinal, startKeystore,
                   dexCache0, d8Count>>

\* aapt add unsigned.apk classes.dex, with cwd = classes_dex.parent
AaptAddDone ==
    /\ pc = "aaptAdd" /\ Running
    /\ \E rc \in {0, 1} :
          /\ log' = Returned(rc)
          /\ IF rc = 0
             THEN /\ apk' = [apk EXCEPT !.unsigned = "full",
                                        !.dex = IF classes_dex = "tmp" THEN "fresh"
                                                ELSE "cache"]
                  /\ pc' = "zipalign"
                  /\ UNCHANGED tmpExists
             ELSE Raise /\ UNCHANGED apk
    /\ UNCHANGED <<run, env, effects, exitReason, manifestIn, manifest, classes_dex,
                   keystore, dexCache, tempApk, finalApk, startFinal, startKeystore,
                   dexCache0, d8Count>>

----------------------------------------------------------------------------
(* align and sign                                                          *)

\* zipalign -f -p 4 unsigned.apk aligned.apk (last command of both paths)
ZipalignDone ==
    /\ pc = "zipalign" /\ Running
    /\ \E rc \in {0, 1} :
          /\ log' = Returned(rc)
          /\ IF rc = 0
             THEN /\ apk' = [apk EXCEPT !.aligned = TRUE]
                  /\ pc' = "keystore"
                  /\ UNCHANGED tmpExists
             ELSE Raise /\ UNCHANGED apk
    /\ UNCHANGED <<run, env, effects, exitReason, manifestIn, manifest, classes_dex,
                   keystore, dexCache, tempApk, finalApk, startFinal, startKeystore,
                   dexCache0, d8Count>>

EnsureKeystore_always ==
    /\ pc = "keystore"
    /\ effects' = effects \cup {"buildDir"}
    /\ pc' = "keytool"
    /\ UNCHANGED <<run, env, log, exitReason, tmpExists, manifestIn, manifest,
                   classes_dex, apk, keystore, dexCache, tempApk, finalApk, startFinal,
                   startKeystore, dexCache0, d8Count>>

\* ensure_debug_keystore: ensure_dir(build); if not ks.exists(): keytool
EnsureKeystore ==
    /\ pc = "keystore"
    /\ effects' = effects \cup {"buildDir"}
    /\ pc' = IF keystore = 0 THEN "keytool" ELSE "apksigner"
    /\ UNCHANGED <<run, env, log, exitReason, tmpExists, manifestIn, manifest,
                   classes_dex, apk, keystore, dexCache, tempApk, finalApk, startFinal,
                   startKeystore, dexCache0, d8Count>>

\* keytool -genkey ... -keystore build/debug-jks.keystore
KeytoolDone ==
    /\ pc = "keytool" /\ Running
    /\ \E rc \in {0, 1} :
          /\ log' = Returned(rc)
          /\ IF rc = 0
             THEN /\ keystore' = run
                  /\ pc' = "apksigner"
                  /\ UNCHANGED tmpExists
             ELSE Raise /\ UNCHANGED keystore
    /\ UNCHANGED <<run, env, effects, exitReason, manifestIn, manifest, classes_dex,
                   apk, dexCache, tempApk, finalApk, startFinal, startKeystore,
                   dexCache0, d8Count>>

ApksignerDone_direct ==
    /\ pc = "apksigner" /\ Running
    /\ \E rc \in {0, 1} :
          /\ log' = Returned(rc)
          /\ finalApk' = run
          /\ IF rc = 0
             THEN pc' = "finalize" /\ UNCHANGED tmpExists
             ELSE Raise
    /\ UNCHANGED <<run, env, effects, exitReason, manifestIn, manifest, classes_dex,
                   apk, keystore, dexCache, tempApk, startFinal, startKeystore,
                   dexCache0, d8Count>>

\* apksigner sign --ks keystore ... --out build/build_temp_<pkg>.apk aligned.apk
ApksignerDone ==
    /\ pc = "apksigner" /\ Running
    /\ \E rc \in {0, 1} :
          /\ log' = Returned(rc)
          /\ IF rc = 0
             THEN /\ tempApk' = run
                  /\ pc' = "finalize"
                  /\ UNCHANGED tmpExists
             ELSE Raise /\ UNCHANGED tempApk
    /\ UNCHANGED <<run, env, effects, exitReason, manifestIn, manifest, classes_dex,
                   apk, keystore, dexCache, finalApk, startFinal, startKeystore,
                   dexCache0, d8Count>>

\* if temp_apk_path.exists(): remove an existing final APK, rename the signed
\* APK to the final name; the with-block ends and removes the temporary directory
Finalize ==
    /\ pc = "finalize"
    /\ IF tempApk # 0
       THEN finalApk' = tempApk /\ tempApk' = 0
       ELSE UNCHANGED <<finalApk, tempApk>>
    /\ tmpExists' = FALSE
    /\ pc' = "done"
    /\ UNCHANGED <<run, env, log, effects, exitReason, manifestIn, manifest,
                   classes_dex, apk, keystore, dexCache, startFinal, startKeystore,
                   dexCache0, d8Count>>

Next ==
    \/ StartRun
    \/ CheckHtml
    \/ CheckIcon
    \/ Setup
    \/ EnterTmp
    \/ Invoke
    \/ ApktoolDDone
    \/ ApktoolPrep
    \/ ApktoolBDone
    \/ AaptProbe
    \/ AaptPrep
    \/ DexCheck
    \/ JavacDone
    \/ ClassCheck
    \/ D8Done
    \/ AaptPackageDone
    \/ AaptPackageNoResDone
    \/ AaptAddDone
    \/ ZipalignDone
    \/ EnsureKeystore
    \/ KeytoolDone
    \/ ApksignerDone
    \/ Finalize

Spec == Init /\ [][Next]_vars

----------------------------------------------------------------------------
(* The two manifest rewritings as functions of the manifest read: every    *)
(* input manifest of ManifestInputs, rewritten by either path.             *)

InitManifest ==
    /\ run = 1
    /\ pc = "manifestRead"
    /\ env = NoEnv
    /\ log = <<>>
    /\ effects = {}
    /\ exitReason = "none"
    /\ tmpExists = TRUE
    /\ manifestIn \in ManifestInputs
    /\ manifest = manifestIn
    /\ classes_dex = "unset"
    /\ apk = NoApk
    /\ keystore = 0
    /\ dexCache = 0
    /\ dexCache0 = 0
    /\ tempApk = 0
    /\ finalApk = 0
    /\ startFinal = 0
    /\ startKeystore = 0
    /\ d8Count = 0

\* the apktool path's update_manifest(manifest_path, args.pkg, args.version)
ApplyUpdateManifest ==
    /\ pc = "manifestRead"
    /\ manifest' = update_manifest(manifestIn)
    /\ pc' = "manifestApktool"
    /\ UNCHANGED <<run, env, log, effects, exitReason, tmpExists, manifestIn,
                   classes_dex, apk, keystore, dexCache, tempApk, finalApk, startFinal,
                   startKeystore, dexCache0, d8Count>>

\* the aapt path's rewriting of the shell manifest
ApplyShellRewrite ==
    /\ pc = "manifestRead"
    /\ manifest' = RewriteShellManifest(manifestIn)
    /\ pc' = "manifestAapt"
    /\ UNCHANGED <<run, env, log, effects, exitReason, tmpExists, manifestIn,
                   classes_dex, apk, keystore, dexCache, tempApk, finalApk, startFinal,
                   startKeystore, dexCache0, d8Count>>

NextManifest ==
    \/ ApplyUpdateManifest
    \/ ApplyShellRewrite

SpecManifest == InitManifest /\ [][NextManifest]_vars

----------------------------------------------------------------------------
(* Queries on the list of commands the current run has invoked.            *)

Invoked(c) == \E i \in DOMAIN log : log[i].cmd = c

Ok(c) == \E i \in DOMAIN log : log[i].cmd = c /\ log[i].res = "ok"

OkBefore(c, j) == \E i \in 1..(j - 1) : log[i].cmd = c /\ log[i].res = "ok"

Failed(r) == r \in {"nonzero", "oserror"}

Binaries == {BinaryOf(log[i].cmd) : i \in DOMAIN log}

\* compile, dex, package, align, sign
StageOf(c) ==
    CASE c = "javac" -> 1
      [] c = "d8" -> 2
      [] c \in {"aaptPackage", "aaptPackageNoRes", "aaptAdd", "apktoolD", "apktoolB"} -> 3
      [] c = "zipalign" -> 4
      [] OTHER -> 5

\* the stage that log[i] belongs to has completed successfully before log[j]
StageDoneBefore(i, j) ==
    \/ log[i].res = "ok"
    \/ /\ log[i].cmd = "aaptPackage"
       /\ log[i].res = "nonzero"
       /\ OkBefore("aaptPackageNoRes", j)

----------------------------------------------------------------------------
\* C1: the final APK changes only at the end of a run whose apksigner call
\* succeeded on the aligned APK; in a run that is still going, exited early or
\* had a command fail, the final APK is exactly what it was when the run began.
C1_FinalOnlyAfterSign ==
    /\ pc # "done" => finalApk = startFinal
    /\ pc = "done" => /\ finalApk = run
                      /\ apk.aligned
                      /\ log[Len(log)] = [cmd |-> "apksigner", res |-> "ok"]

\* a second run fails at apksigner while the first run's final APK is in place
C1_Witness ==
    /\ pc = "raised"
    /\ startFinal # 0
    /\ finalApk = startFinal
    /\ log # <<>>
    /\ log[Len(log)].cmd = "apksigner"
    /\ Failed(log[Len(log)].res)

\* C2: commands are invoked in stage order compile, dex, package, align, sign;
\* a command of a later stage is invoked only after every earlier invoked stage
\* completed successfully; aapt add follows a successful aapt package; zipalign
\* needs a complete unsigned APK; apksigner needs a successful zipalign.
C2_StageOrder ==
    \A j \in DOMAIN log :
        /\ \A i \in 1..(j - 1) :
              /\ StageOf(log[i].cmd) <= StageOf(log[j].cmd)
              /\ StageOf(log[i].cmd) < StageOf(log[j].cmd) => StageDoneBefore(i, j)
        /\ log[j].cmd = "d8" => OkBefore("javac", j)
        /\ log[j].cmd = "aaptAdd" =>
              OkBefore("aaptPackage", j) \/ OkBefore("aaptPackageNoRes", j)
        /\ log[j].cmd = "zipalign" =>
              /\ OkBefore("aaptAdd", j) \/ OkBefore("apktoolB", j)
              /\ apk.unsigned = "full"
        /\ log[j].cmd = "apksigner" => OkBefore("zipalign", j) /\ apk.aligned

\* a finished run that compiled, dexed, needed the packaging retry, aligned and signed
C2_Witness ==
    /\ pc = "done"
    /\ Ok("javac") /\ Ok("d8") /\ Ok("aaptPackageNoRes") /\ Ok("aaptAdd")
    /\ Ok("zipalign") /\ Ok("apksigner")

\* C3 as stated: every failure of the first aapt package invocation is followed
\* by exactly one retry without -S res, and every other failed command is the
\* last command of a run that aborted.
C3_AnyPackageFailureRetried ==
    \A i \in DOMAIN log :
        Failed(log[i].res) =>
            IF log[i].cmd = "aaptPackage"
            THEN \/ i = Len(log) /\ pc = "aaptPackageNoRes"
                 \/ /\ i < Len(log)
                    /\ log[i + 1].cmd = "aaptPackageNoRes"
                    /\ Cardinality({k \in DOMAIN log : log[k].cmd = "aaptPackageNoRes"}) = 1
            ELSE i = Len(log) /\ pc = "raised"

\* C3 amended: a nonzero exit status of the first aapt package invocation is
\* followed by exactly one retry without -S res; every other failure (the
\* executable of any command, aapt package included, cannot be started; a
\* nonzero exit of the retry or of any other command) is the last command of a
\* run that aborted.
C3_OnlyNonzeroPackageRetried ==
    \A i \in DOMAIN log :
        Failed(log[i].res) =>
            IF log[i].cmd = "aaptPackage" /\ log[i].res = "nonzero"
            THEN \/ i = Len(log) /\ pc = "aaptPackageNoRes"
                 \/ /\ i < Len(log)
                    /\ log[i + 1].cmd = "aaptPackageNoRes"
                    /\ Cardinality({k \in DOMAIN log : log[k].cmd = "aaptPackageNoRes"}) = 1
            ELSE i = Len(log) /\ pc = "raised"

\* a run recovered from a nonzero exit of the first aapt package and finished
C3_Witness ==
    /\ pc = "done"
    /\ \E i \in DOMAIN log :
          /\ log[i] = [cmd |-> "aaptPackage", res |-> "nonzero"]
          /\ log[i + 1] = [cmd |-> "aaptPackageNoRes", res |-> "ok"]
    /\ ~apk.res

\* C4: with apktool.jar present only apktool (decode, then build), zipalign,
\* keytool and apksigner are invoked; with apktool.jar missing apktool is never
\* invoked; on both paths the command after the unsigned APK is complete is
\* zipalign, and apksigner comes after a successful zipalign.
C4_PathExclusive ==
    /\ env.apktool =>
          \A i \in DOMAIN log :
              log[i].cmd \in {"apktoolD", "apktoolB", "zipalign", "keytool", "apksigner"}
    /\ ~env.apktool =>
          \A i \in DOMAIN log : log[i].cmd \notin {"apktoolD", "apktoolB"}
    /\ \A j \in DOMAIN log :
          /\ log[j].cmd = "apktoolB" =>
                j = 2 /\ log[1] = [cmd |-> "apktoolD", res |-> "ok"]
          /\ (j < Len(log) /\ log[j].cmd \in {"apktoolB", "aaptAdd"}) =>
                log[j + 1].cmd = "zipalign"
          /\ log[j].cmd = "apksigner" => OkBefore("zipalign", j)
    /\ (pc = "done" /\ env.apktool) =>
          /\ Ok("apktoolD") /\ Ok("apktoolB") /\ Ok("zipalign") /\ Ok("apksigner")
    /\ (pc = "done" /\ ~env.apktool) =>
          /\ Ok("aaptAdd") /\ Ok("zipalign") /\ Ok("apksigner")

\* a finished run on the apktool path
C4_Witness ==
    /\ pc = "done"
    /\ env.apktool
    /\ Ok("apktoolB")
    /\ Ok("apksigner")

\* C5: with a cached build/dex/classes.dex neither javac nor d8 is invoked and
\* the dex added to the APK is the cached one; without it, javac and then d8
\* have succeeded before aapt package and the dex added is the one d8 produced.
C5_CachedDexReuse ==
    /\ dexCache # 0 =>
          /\ ~Invoked("javac") /\ ~Invoked("d8")
          /\ Ok("aaptAdd") => apk.dex = "cache"
    /\ dexCache = 0 =>
          /\ Invoked("aaptPackage") =>
                /\ Len(log) >= 3
                /\ log[1] = [cmd |-> "javac", res |-> "ok"]
                /\ log[2] = [cmd |-> "d8", res |-> "ok"]
                /\ log[3].cmd = "aaptPackage"
          /\ Ok("aaptAdd") => apk.dex = "fresh"

\* the cached dex has been added to the APK
C5_Witness ==
    /\ dexCache # 0
    /\ Ok("aaptAdd")
    /\ apk.dex = "cache"
    /\ pc = "done"

\* what C6 asks of a manifest: all seven substitutions are in effect
AllSeven(m) ==
    /\ m.internet
    /\ m.appTheme = "AppTheme"
    /\ m.appIcon
    /\ "true" \in m.exported
    /\ m.appLabel = "req"
    /\ m.pkg = "req"
    /\ m.versionName = "req"

\* a manifest as a shell project has it: package and label present, the
\* activity has an intent-filter, icon, theme and label sit on the application
Typical(m) ==
    /\ m.pkg # "none"
    /\ m.appLabel # "none"
    /\ m.intentFilter
    /\ ~m.actIcon
    /\ m.actTheme = "none"
    /\ m.actLabel = "none"

\* C6 as stated (for a manifest as a shell project has it): on the apktool path and on the aapt path alike the rewritten
\* manifest has the INTERNET permission, the AppTheme theme and an icon on the
\* application, exported="true" on the activity, the application name as label,
\* the requested package and the requested versionName.
C6_AllSevenOnEveryPath ==
    (pc \in {"manifestApktool", "manifestAapt"} /\ Typical(manifestIn)) =>
        AllSeven(manifest)

\* C6 amended: on both paths the rewritten manifest declares the INTERNET
\* permission, has an android:icon attribute (added to the application when
\* there was none), the requested versionName, and the requested package when
\* a package attribute was there.  Only the aapt path goes further: every theme
\* attribute is AppTheme (added to the application when there was none), the
\* activity carries exported="true" when the manifest has an intent-filter, and
\* the first label attribute, when there is one, is the application name.  On
\* the apktool path theme, exported flag and label stay as read.  For a
\* manifest as a shell project has it, the aapt path ends with all seven.
C6_SubstitutionsPerPath ==
    /\ pc \in {"manifestApktool", "manifestAapt"} =>
          /\ manifest.internet
          /\ manifest.appIcon \/ manifest.actIcon
          /\ manifest.appIcon = (manifestIn.appIcon \/ ~manifestIn.actIcon)
          /\ manifest.versionName = "req"
          /\ manifest.pkg = IF manifestIn.pkg = "none" THEN "none" ELSE "req"
    /\ pc = "manifestAapt" =>
          /\ {manifest.appTheme, manifest.actTheme} \subseteq {"none", "AppTheme"}
          /\ "AppTheme" \in {manifest.appTheme, manifest.actTheme}
          /\ manifest.intentFilter => "true" \in manifest.exported
          /\ manifest.appLabel = IF manifestIn.appLabel = "none" THEN "none" ELSE "req"
          /\ manifest.actLabel =
                IF manifestIn.appLabel = "none" /\ manifestIn.actLabel # "none"
                THEN "req" ELSE manifestIn.actLabel
    /\ (pc = "manifestAapt" /\ Typical(manifestIn)) => AllSeven(manifest)
    /\ pc = "manifestApktool" =>
          /\ manifest.appTheme = manifestIn.appTheme
          /\ manifest.actTheme = manifestIn.actTheme
          /\ manifest.exported = manifestIn.exported
          /\ manifest.appLabel = manifestIn.appLabel
          /\ manifest.actLabel = manifestIn.actLabel

\* update_manifest has rewritten a manifest that had a label, a foreign theme,
\* an intent-filter and no exported flag: package and version are the requested
\* ones, label, theme and exported flag are untouched
C6_Witness ==
    /\ pc = "manifestApktool"
    /\ manifestIn.appLabel = "orig" /\ manifest.appLabel = "orig"
    /\ manifestIn.appTheme = "other" /\ manifest.appTheme = "other"
    /\ manifest.intentFilter /\ manifest.exported = {}
    /\ ~manifestIn.internet /\ manifest.internet
    /\ manifestIn.pkg = "orig" /\ manifest.pkg = "req"
    /\ manifest.versionName = "req"

\* C7 as stated: a run that ends with a final APK has invoked between five and
\* seven distinct executables.
C7_FiveToSevenBinaries ==
    pc = "done" => (Cardinality(Binaries) >= 5 /\ Cardinality(Binaries) <= 7)

\* C7 amended: a run that ends with a final APK has invoked three distinct
\* executables on the apktool path (java, zipalign, apksigner) or with a cached
\* dex (aapt, zipalign, apksigner), five without a cached dex (javac, d8, aapt,
\* zipalign, apksigner), and keytool in addition when the keystore was missing:
\* between three and six; and no command is invoked while another is running.
C7_ThreeToSixBinaries ==
    /\ \A i \in DOMAIN log : i < Len(log) => log[i].res # "running"
    /\ pc = "done" =>
          /\ Binaries =
                (IF env.apktool THEN {"java"}
                 ELSE IF dexCache # 0 THEN {"aapt"}
                 ELSE {"javac", "d8", "aapt"})
                \cup {"zipalign", "apksigner"}
                \cup (IF startKeystore = 0 THEN {"keytool"} ELSE {})
          /\ Cardinality(Binaries) >= 3
          /\ Cardinality(Binaries) <= 6

\* a finished run that needed three executables only
C7_Witness ==
    /\ pc = "done"
    /\ finalApk = run
    /\ Cardinality(Binaries) = 3

\* C8: keytool is invoked exactly when the keystore is missing, after a
\* successful zipalign and before apksigner; a keystore that exists when a run
\* starts is the same keystore at every later point of the run; apksigner is
\* invoked only with a keystore that existed or that keytool has just made.
C8_KeytoolGuarded ==
    /\ startKeystore # 0 => (keystore = startKeystore /\ ~Invoked("keytool"))
    /\ \A j \in DOMAIN log :
          /\ log[j].cmd = "keytool" =>
                /\ startKeystore = 0
                /\ OkBefore("zipalign", j)
                /\ log[j - 1].cmd = "zipalign"
          /\ log[j].cmd = "apksigner" =>
                /\ keystore # 0
                /\ IF startKeystore = 0
                   THEN log[j - 1] = [cmd |-> "keytool", res |-> "ok"] /\ keystore = run
                   ELSE log[j - 1].cmd = "zipalign"
    /\ keystore # 0 => keystore <= run

\* a later run signs with the keystore an earlier run generated, without keytool
C8_Witness ==
    /\ run >= 2
    /\ startKeystore # 0
    /\ keystore = startKeystore
    /\ Ok("apksigner")
    /\ ~Invoked("keytool")

\* C9: no run changes build/dex/classes.dex; when it was absent before the
\* first run, every run that reaches aapt package has run javac and d8 itself.
C9_DexCacheReadOnly ==
    /\ dexCache = dexCache0
    /\ dexCache0 = 0 =>
          /\ Invoked("aaptPackage") => (Ok("javac") /\ Ok("d8"))
          /\ Ok("aaptAdd") => classes_dex = "tmp"

\* d8 has succeeded in two runs and there is still no cached dex
C9_Witness ==
    /\ d8Count >= 2
    /\ run >= 2
    /\ dexCache = 0
    /\ Ok("d8")
    /\ Invoked("aaptPackage")

\* C10: a run that finds the HTML file or the icon missing exits with status 1
\* having created no directory and invoked no command; a missing HTML file is
\* reported even when the icon is missing too.
C10_ValidationFirst ==
    /\ (pc = "exit1" /\ exitReason \in {"html", "icon"}) =>
          /\ effects = {}
          /\ log = <<>>
          /\ ~tmpExists
    /\ (pc \notin {"idle", "checkHtml"} /\ ~env.html) =>
          (pc = "exit1" /\ exitReason = "html")
    /\ (pc \notin {"idle", "checkHtml", "checkIcon"} /\ env.html /\ ~env.icon) =>
          (pc = "exit1" /\ exitReason = "icon")

\* both files are missing: the run exits on the HTML check, nothing created
C10_Witness ==
    /\ pc = "exit1"
    /\ exitReason = "html"
    /\ ~env.html /\ ~env.icon
    /\ effects = {}

----------------------------------------------------------------------------
====
